---- MODULE Spec2Model ----
(***************************************************************************)
(* FeedMe (src/main.py): the subscription store, the feed merge and the    *)
(* Tk handlers of PodcastApp that read and write the collection.           *)
(*                                                                         *)
(* A collection (a Python dict, insertion ordered) is a sequence of        *)
(* subscriptions [name, url, episodes] with pairwise different names.      *)
(* An episode is [title, link, read]; "title" stands for all the fields    *)
(* that update_all_feeds copies from the fetched entry in the same way     *)
(* (title, published, summary, enclosures).                                *)
(* Names are sequences of one-character strings, so that rstrip(" *") of   *)
(* a listbox row is computed and not assumed.                              *)
(***************************************************************************)
EXTENDS Integers, Sequences, FiniteSets, TLC

VARIABLES pc, storage, disk, podcasts, podcast_listbox, episodes_tree,
          current_podcast, current_episode_index, read_timer, timers,
          updated_feeds, last, stack

vars == <<pc, storage, disk, podcasts, podcast_listbox, episodes_tree,
          current_podcast, current_episode_index, read_timer, timers,
          updated_feeds, last, stack>>

(***************************************************************************)
(* Program constants and bounds                                            *)
(***************************************************************************)
\* MAX_EPISODES is 100 in the source; the model runs the same code with the
\* cut at 2 so that lists longer than the maximum are within reach.
MAX_EPISODES == 2

\* longest entry list one fetch returns
MaxFresh == 3
\* longest episode list of a collection given to update_all_feeds alone
MaxStored == 2

\* Python's None for a name, for an index and for a timer id
None == <<"None">>
NoIndex == 0 - 1
NoTimer == 0
\* a key the dict does not have (entry.get(key, default) answers default)
Absent == "<absent>"

Min(a, b) == IF a < b THEN a ELSE b

(***************************************************************************)
(* Collections                                                             *)
(***************************************************************************)
Keys(feeds) == {feeds[i].name : i \in 1..Len(feeds)}

\* position of key `name` (0 when the dict has no such key)
IndexOf(feeds, name) ==
    IF name \in Keys(feeds)
    THEN CHOOSE i \in 1..Len(feeds) : feeds[i].name = name
    ELSE 0

\* feeds[name] = info : an existing key keeps its position, a new one is last
SetItem(feeds, name, info) ==
    LET rec == [name |-> name, url |-> info.url, episodes |-> info.episodes]
    IN  IF name \in Keys(feeds)
        THEN [feeds EXCEPT ![IndexOf(feeds, name)] = rec]
        ELSE Append(feeds, rec)

\* del feeds[name]
DelItem(feeds, name) ==
    LET i == IndexOf(feeds, name)
    IN  SubSeq(feeds, 1, i - 1) \o SubSeq(feeds, i + 1, Len(feeds))

(***************************************************************************)
(* truncate_episodes, load_subscriptions, save_subscriptions               *)
(***************************************************************************)
\* a cut that keeps the end of the list
truncate_episodes_from_the_end(feeds) ==
    [i \in 1..Len(feeds) |->
        IF Len(feeds[i].episodes) > MAX_EPISODES
        THEN [feeds[i] EXCEPT !.episodes =
                 SubSeq(feeds[i].episodes, Len(feeds[i].episodes) - MAX_EPISODES + 1,
                        Len(feeds[i].episodes))]
        ELSE feeds[i]]

\* episodes[:MAX_EPISODES], assigned in place to every longer list
truncate_episodes(feeds) ==
    [i \in 1..Len(feeds) |->
        IF Len(feeds[i].episodes) > MAX_EPISODES
        THEN [feeds[i] EXCEPT !.episodes = SubSeq(feeds[i].episodes, 1, MAX_EPISODES)]
        ELSE feeds[i]]

\* The store file: absent, present with a JSON document of a collection
\* ("valid"), present but not parseable ("corrupt": half written, not JSON),
\* or present but not openable for reading ("unreadable").
File(state, feeds) == [state |-> state, feeds |-> feeds]

\* open() and json.load() of lines 21-22: they raise unless the file holds a
\* JSON document
read_file(file) ==
    IF file.state = "valid"
    THEN [raised |-> FALSE, feeds |-> file.feeds]
    ELSE [raised |-> TRUE, feeds |-> <<>>]

\* load_subscriptions without its try/except
load_subscriptions_unguarded(file) ==
    IF file.state # "absent"
    THEN read_file(file)
    ELSE [raised |-> FALSE, feeds |-> <<>>]

\* [raised, feeds]: whether the call raises to its caller, and what it returns
load_subscriptions(file) ==
    IF file.state # "absent"
    THEN IF read_file(file).raised
         THEN [raised |-> FALSE, feeds |-> <<>>]
         ELSE [raised |-> FALSE, feeds |-> read_file(file).feeds]
    ELSE [raised |-> FALSE, feeds |-> <<>>]

\* How one call of save_subscriptions ends: "ok", "open_failed" (open() raises,
\* nothing written) or "write_failed" (json.dump raises after open(.., "w") has
\* emptied the file). The outcome follows the condition of the storage, which
\* a run finds writable ("ok"), write protected ("readonly") or out of space
\* ("full").
StorageConditions == {"ok", "readonly", "full"}

SaveOutcome ==
    CASE storage = "ok"       -> "ok"
      [] storage = "readonly" -> "open_failed"
      [] storage = "full"     -> "write_failed"

\* a save that returns without opening the file
save_subscriptions_skipped(file, feeds, outcome) == file

\* the file after save_subscriptions(feeds) ended with `outcome`
save_subscriptions(file, feeds, outcome) ==
    CASE outcome = "ok"           -> File("valid", truncate_episodes(feeds))
      [] outcome = "open_failed"  -> file
      [] outcome = "write_failed" -> File("corrupt", <<>>)

(***************************************************************************)
(* update_all_feeds                                                        *)
(***************************************************************************)
\* entry.get(key, default)
Get(value, default) == IF value = Absent THEN default ELSE value

\* {ep.get("link"): ep for ep in episodes}: of two episodes with one link the
\* later one is kept
old_episodes(episodes) ==
    [l \in {episodes[k].link : k \in 1..Len(episodes)} |->
        LET last_k == CHOOSE k \in 1..Len(episodes) :
                          /\ episodes[k].link = l
                          /\ \A j \in (k + 1)..Len(episodes) : episodes[j].link # l
        IN  episodes[last_k]]

\* old_episodes.get(link, {}).get("read", False)
read_status(old, link) ==
    IF link \in DOMAIN old THEN old[link].read ELSE FALSE

\* a merge that keeps the previous episodes the fetch no longer lists
new_episodes_keep_old(episodes, entries) ==
    [k \in 1..Len(entries) |->
        LET link == Get(entries[k].link, "")
        IN  [title |-> Get(entries[k].title, "No Title"),
             link  |-> link,
             read  |-> read_status(old_episodes(episodes), link)]]
    \o SelectSeq(episodes,
                 LAMBDA ep : \A k \in 1..Len(entries) : Get(entries[k].link, "") # ep.link)

\* the loop over data.entries (lines 84-98)
new_episodes(episodes, entries) ==
    [k \in 1..Len(entries) |->
        LET link == Get(entries[k].link, "")
        IN  [title |-> Get(entries[k].title, "No Title"),
             link  |-> link,
             read  |-> read_status(old_episodes(episodes), link)]]

\* a merge that stores the new episodes alone: {"episodes": new_episodes}
merged_feed_without_url(feed_info, data) ==
    LET eps == new_episodes(feed_info.episodes, data.entries)
    IN  [name     |-> feed_info.name,
         url      |-> Absent,
         episodes |-> IF Len(eps) > MAX_EPISODES
                      THEN SubSeq(eps, 1, MAX_EPISODES)
                      ELSE eps]

\* one subscription whose fetch succeeded (lines 83-103)
merged_feed(feed_info, data) ==
    LET eps == new_episodes(feed_info.episodes, data.entries)
    IN  [name     |-> feed_info.name,
         url      |-> feed_info.url,
         episodes |-> IF Len(eps) > MAX_EPISODES
                      THEN SubSeq(eps, 1, MAX_EPISODES)
                      ELSE eps]

\* the loop with `break` for `continue`: the first failing fetch ends the cycle
RECURSIVE update_from_abort(_, _, _, _)
update_from_abort(podcast_feeds, fetched, i, acc) ==
    IF i > Len(podcast_feeds)
    THEN acc
    ELSE IF fetched[i].bozo
         THEN Append(acc, podcast_feeds[i])
         ELSE update_from_abort(podcast_feeds, fetched, i + 1,
                                Append(acc, merged_feed(podcast_feeds[i], fetched[i])))

\* The loop of update_all_feeds from the i-th subscription on; fetched[i] is
\* what fetch_podcast returned for it.
RECURSIVE update_from(_, _, _, _)
update_from(podcast_feeds, fetched, i, acc) ==
    IF i > Len(podcast_feeds)
    THEN acc
    ELSE IF fetched[i].bozo
         THEN update_from(podcast_feeds, fetched, i + 1, Append(acc, podcast_feeds[i]))
         ELSE update_from(podcast_feeds, fetched, i + 1,
                          Append(acc, merged_feed(podcast_feeds[i], fetched[i])))

update_all_feeds(podcast_feeds, fetched) ==
    update_from(podcast_feeds, fetched, 1, <<>>)

(***************************************************************************)
(* import_opml                                                             *)
(***************************************************************************)
\* an attribute an outline does not carry (attrib.get answers None)
AbsentName == <<"<absent>">>

\* Python truth of a string attribute
TruthyName(s) == s # AbsentName /\ s # <<>>
TruthyUrl(u) == u # Absent /\ u # ""

\* the loop keeping the first outline of a name: `if title not in feeds`
RECURSIVE import_from_first_wins(_, _, _)
import_from_first_wins(outlines, k, feeds) ==
    IF k > Len(outlines)
    THEN feeds
    ELSE LET title == IF TruthyName(outlines[k].title)
                      THEN outlines[k].title
                      ELSE outlines[k].text
             feed_url == outlines[k].xmlUrl
         IN  IF TruthyName(title) /\ TruthyUrl(feed_url) /\ title \notin Keys(feeds)
             THEN import_from_first_wins(outlines, k + 1,
                      SetItem(feeds, title, [url |-> feed_url, episodes |-> <<>>]))
             ELSE import_from_first_wins(outlines, k + 1, feeds)

\* the loop over the outlines (lines 55-61), from the k-th outline on
RECURSIVE import_from(_, _, _)
import_from(outlines, k, feeds) ==
    IF k > Len(outlines)
    THEN feeds
    ELSE LET title == IF TruthyName(outlines[k].title)
                      THEN outlines[k].title
                      ELSE outlines[k].text
             feed_url == outlines[k].xmlUrl
         IN  IF TruthyName(title) /\ TruthyUrl(feed_url)
             THEN import_from(outlines, k + 1,
                              SetItem(feeds, title, [url |-> feed_url, episodes |-> <<>>]))
             ELSE import_from(outlines, k + 1, feeds)

\* a document ET.parse rejects raises before the loop: the result is empty
import_opml(doc) ==
    IF doc.parses THEN import_from(doc.outlines, 1, <<>>) ELSE <<>>

(***************************************************************************)
(* The podcast listbox                                                     *)
(***************************************************************************)
\* code points of the characters names are made of
Ord(c) == CASE c = " " -> 32 [] c = "*" -> 42 [] c = "a" -> 97 [] c = "b" -> 98

\* s < t for Python strings
RECURSIVE StrLess(_, _)
StrLess(s, t) ==
    IF t = <<>> THEN FALSE
    ELSE IF s = <<>> THEN TRUE
    ELSE IF Ord(Head(s)) # Ord(Head(t)) THEN Ord(Head(s)) < Ord(Head(t))
    ELSE StrLess(Tail(s), Tail(t))

\* sorted(names)
RECURSIVE Sorted(_)
Sorted(names) ==
    IF names = {} THEN <<>>
    ELSE LET least == CHOOSE n \in names : \A m \in names \ {n} : StrLess(n, m)
         IN  <<least>> \o Sorted(names \ {least})

\* display_name.rstrip(" *")
RECURSIVE rstrip(_)
rstrip(s) ==
    IF s # <<>> /\ s[Len(s)] \in {" ", "*"}
    THEN rstrip(SubSeq(s, 1, Len(s) - 1))
    ELSE s

\* any(not ep.get("read", False) for ep in episodes)
AnyUnread(episodes) == \E k \in 1..Len(episodes) : ~episodes[k].read

\* the rows populate_podcast_list inserts
populate_podcast_list(feeds) ==
    LET names == Sorted(Keys(feeds))
    IN  [r \in 1..Len(names) |->
            IF AnyUnread(feeds[IndexOf(feeds, names[r])].episodes)
            THEN names[r] \o <<" ", "*">>
            ELSE names[r]]

\* self.podcasts.get(podcast_name, {}).get("episodes", [])
EpisodesOf(feeds, name) ==
    IF name \in Keys(feeds) THEN feeds[IndexOf(feeds, name)].episodes ELSE <<>>

(***************************************************************************)
(* The application: main() and the handlers of PodcastApp                  *)
(***************************************************************************)
\* Tk's queue of pending `after` callbacks holds records [id, podcast, index]:
\* the id `after` returned, and the selection at the time it was scheduled.
NoTimerRec == [id |-> NoTimer, podcast |-> None, index |-> NoIndex]

\* What the last step was: the handler, how its save ended ("none": it did not
\* save), what the fetches returned, the timer that fired, the timer it
\* cancelled, and the exception or warning dialog that ended the handler early
\* ("none": none).  args holds the input of the call where a property refers to it.
Last(op, save, fetched, fired, cancelled, raised) ==
    [op |-> op, save |-> save, fetched |-> fetched, fired |-> fired,
     cancelled |-> cancelled, raised |-> raised, args |-> <<>>]

\* the same, for a handler that asked the user for args
Asked(args, record) == [record EXCEPT !.args = args]

\* a handler that forgets after_cancel: the pending timer stays queued
after_cancel_forgotten(queue, id) == queue

\* after_cancel(self.read_timer) under `if self.read_timer:`
after_cancel(queue, id) == {t \in queue : t.id # id}

\* the pending timer after_cancel(id) removes, if any
Cancelled(queue, id) ==
    IF \E t \in queue : t.id = id
    THEN CHOOSE t \in queue : t.id = id
    ELSE NoTimerRec

\* the id self.after(...) returns: one no pending timer and no variable holds
NewTimerId(queue, held) ==
    CHOOSE i \in 1..(Cardinality(queue) + 2) :
        i # held /\ \A t \in queue : t.id # i

\* self.podcasts[name]["episodes"][index]["read"] = value
SetRead(feeds, name, index, value) ==
    [feeds EXCEPT ![IndexOf(feeds, name)].episodes[index + 1].read = value]

\* `if self.current_podcast:`
Truthy(name) == name # None /\ name # <<>>

\* main(): load_subscriptions(), then PodcastApp.__init__
Main ==
    /\ pc = "boot"
    /\ LET r == load_subscriptions(disk)
       IN  IF r.raised
           THEN /\ pc' = "crashed"
                /\ UNCHANGED <<podcasts, podcast_listbox>>
           ELSE /\ pc' = "run"
                /\ podcasts' = r.feeds
                /\ podcast_listbox' = populate_podcast_list(r.feeds)
    /\ last' = Last("main", "none", <<>>, NoTimerRec, NoTimerRec, "none")
    /\ UNCHANGED <<stack, storage, disk, episodes_tree, current_podcast, current_episode_index,
                   read_timer, timers, updated_feeds>>

\* on_podcast_select with row `row` selected; populate_episode_list cancels
\* the pending timer and fills the tree with the subscription's episodes
on_podcast_select(row) ==
    /\ pc = "run"
    /\ LET podcast_name == rstrip(podcast_listbox[row])
       IN  /\ current_podcast' = podcast_name
           /\ episodes_tree' = Len(EpisodesOf(podcasts, podcast_name))
    /\ timers' = IF read_timer # NoTimer THEN after_cancel(timers, read_timer) ELSE timers
    /\ read_timer' = NoTimer
    /\ last' = Last("on_podcast_select", "none", <<>>, NoTimerRec,
                    IF read_timer # NoTimer THEN Cancelled(timers, read_timer) ELSE NoTimerRec,
                    "none")
    /\ UNCHANGED <<stack, pc, storage, disk, podcasts, podcast_listbox, current_episode_index,
                   updated_feeds>>

\* on_episode_select with tree row `index` (iid str(index)) selected
on_episode_select(index) ==
    /\ pc = "run"
    /\ current_episode_index' = index
    /\ LET queue == IF read_timer # NoTimer THEN after_cancel(timers, read_timer) ELSE timers
           id == NewTimerId(queue, read_timer)
       IN  /\ timers' = queue \cup {[id |-> id, podcast |-> current_podcast, index |-> index]}
           /\ read_timer' = id
    /\ last' = Last("on_episode_select", "none", <<>>, NoTimerRec,
                    IF read_timer # NoTimer THEN Cancelled(timers, read_timer) ELSE NoTimerRec,
                    \* view_episode_details raises on a selection that is no episode
                    IF index < Len(EpisodesOf(podcasts, current_podcast))
                    THEN "none"
                    ELSE IF current_podcast \in Keys(podcasts) THEN "IndexError" ELSE "KeyError")
    /\ UNCHANGED <<stack, pc, storage, disk, podcasts, podcast_listbox, episodes_tree, current_podcast,
                   updated_feeds>>

\* The body shared by the three marking handlers from their first access of
\* self.podcasts on: set the flag, update_episode_display, save,
\* populate_podcast_list. `reset` is whether the handler ends with
\* self.read_timer = None, `guarded` whether it tests the index first.
Mark(op, value, fired, guarded, reset) ==
    IF current_podcast \notin Keys(podcasts)
    THEN /\ last' = Last(op, "none", <<>>, fired, NoTimerRec, "KeyError")
         /\ UNCHANGED <<disk, podcasts, podcast_listbox, read_timer>>
    ELSE IF current_episode_index >= Len(EpisodesOf(podcasts, current_podcast))
    THEN /\ last' = Last(op, "none", <<>>, fired, NoTimerRec,
                         IF guarded THEN "none" ELSE "IndexError")
         /\ read_timer' = IF guarded /\ reset THEN NoTimer ELSE read_timer
         /\ UNCHANGED <<disk, podcasts, podcast_listbox>>
    ELSE LET marked == SetRead(podcasts, current_podcast, current_episode_index, value)
         IN  IF current_episode_index >= episodes_tree
             THEN \* episodes_tree.item raises: no such row
                  /\ podcasts' = marked
                  /\ last' = Last(op, "none", <<>>, fired, NoTimerRec, "TclError")
                  /\ UNCHANGED <<disk, podcast_listbox, read_timer>>
             ELSE /\ podcasts' = truncate_episodes(marked)
                  /\ disk' = save_subscriptions(disk, marked, SaveOutcome)
                  /\ podcast_listbox' = populate_podcast_list(truncate_episodes(marked))
                  /\ read_timer' = IF reset THEN NoTimer ELSE read_timer
                  /\ last' = Last(op, SaveOutcome, <<>>, fired, NoTimerRec, "none")

\* the pending timer t fires: mark_current_episode_as_read
mark_current_episode_as_read(t) ==
    /\ pc = "run"
    /\ t \in timers
    /\ timers' = timers \ {t}
    /\ IF current_podcast = None \/ current_episode_index = NoIndex
       THEN /\ last' = Last("mark_current_episode_as_read", "none", <<>>, t, NoTimerRec, "none")
            /\ UNCHANGED <<disk, podcasts, podcast_listbox, read_timer>>
       ELSE Mark("mark_current_episode_as_read", TRUE, t, TRUE, TRUE)
    /\ UNCHANGED <<stack, pc, storage, episodes_tree, current_podcast, current_episode_index, updated_feeds>>

manual_mark_read ==
    /\ pc = "run"
    /\ IF current_podcast = None \/ current_episode_index = NoIndex
       THEN /\ last' = Last("manual_mark_read", "none", <<>>, NoTimerRec, NoTimerRec, "none")
            /\ UNCHANGED <<disk, podcasts, podcast_listbox, read_timer>>
       ELSE Mark("manual_mark_read", TRUE, NoTimerRec, FALSE, FALSE)
    /\ UNCHANGED <<stack, pc, storage, episodes_tree, current_podcast, current_episode_index, timers,
                   updated_feeds>>

manual_mark_unread ==
    /\ pc = "run"
    /\ IF current_podcast = None \/ current_episode_index = NoIndex
       THEN /\ last' = Last("manual_mark_unread", "none", <<>>, NoTimerRec, NoTimerRec, "none")
            /\ UNCHANGED <<disk, podcasts, podcast_listbox, read_timer>>
       ELSE Mark("manual_mark_unread", FALSE, NoTimerRec, FALSE, FALSE)
    /\ UNCHANGED <<stack, pc, storage, episodes_tree, current_podcast, current_episode_index, timers,
                   updated_feeds>>

\* update_feeds: update_all_feeds, save_subscriptions, populate_episode_list
\* of the current podcast (which cancels the pending timer), populate_podcast_list
update_feeds(fetched) ==
    /\ pc = "run"
    /\ LET merged == update_all_feeds(podcasts, fetched)
       IN  /\ podcasts' = truncate_episodes(merged)
           /\ disk' = save_subscriptions(disk, merged, SaveOutcome)
           /\ podcast_listbox' = populate_podcast_list(truncate_episodes(merged))
           /\ IF Truthy(current_podcast)
              THEN /\ timers' = IF read_timer # NoTimer
                                THEN after_cancel(timers, read_timer) ELSE timers
                   /\ read_timer' = NoTimer
                   /\ episodes_tree' =
                          Len(EpisodesOf(truncate_episodes(merged), current_podcast))
              ELSE UNCHANGED <<timers, read_timer, episodes_tree>>
    /\ last' = Last("update_feeds", SaveOutcome, fetched, NoTimerRec,
                    IF Truthy(current_podcast) /\ read_timer # NoTimer
                    THEN Cancelled(timers, read_timer) ELSE NoTimerRec,
                    "none")
    /\ UNCHANGED <<stack, pc, storage, current_podcast, current_episode_index, updated_feeds>>

\* the loop of import_opml_file (lines 472-475) from the k-th imported entry on
RECURSIVE overwrite_from(_, _, _)
overwrite_from(feeds, opml_feeds, k) ==
    IF k > Len(opml_feeds)
    THEN feeds
    ELSE overwrite_from(SetItem(feeds, opml_feeds[k].name,
                                [url |-> opml_feeds[k].url,
                                 episodes |-> opml_feeds[k].episodes]),
                        opml_feeds, k + 1)

\* import_opml_file with the document of the chosen file
import_opml_file(doc) ==
    /\ pc = "run"
    /\ LET opml_feeds == import_opml(doc)
           imported == overwrite_from(podcasts, opml_feeds, 1)
       IN  IF opml_feeds # <<>>
           THEN /\ podcasts' = truncate_episodes(imported)
                /\ disk' = save_subscriptions(disk, imported, SaveOutcome)
                /\ podcast_listbox' = populate_podcast_list(truncate_episodes(imported))
                /\ last' = Asked(<<doc>>, Last("import_opml_file", SaveOutcome, <<>>,
                                                NoTimerRec, NoTimerRec, "none"))
           ELSE /\ last' = Asked(<<doc>>, Last("import_opml_file", "none", <<>>,
                                                NoTimerRec, NoTimerRec, "Import Failed"))
                /\ UNCHANGED <<disk, podcasts, podcast_listbox>>
    /\ UNCHANGED <<stack, pc, storage, episodes_tree, current_podcast, current_episode_index,
                   read_timer, timers, updated_feeds>>

\* an add that tests only for the strings the dialogs returned
Rejection_without_duplicate_test(feeds, title, url) ==
    IF title = <<>> \/ url = "" THEN "cancelled" ELSE "none"

\* the three early returns of add_new_feed, in the order of the code: `if not
\* title`, `if not url` (both silent), `if title in self.podcasts` (warning)
Rejection(feeds, title, url) ==
    IF title = <<>> \/ url = "" THEN "cancelled"
    ELSE IF title \in Keys(feeds) THEN "Duplicate Feed"
    ELSE "none"

\* add_new_feed with the two strings the dialogs returned
add_new_feed(title, url) ==
    /\ pc = "run"
    /\ LET rejection == Rejection(podcasts, title, url)
       IN  IF rejection # "none"
           THEN /\ last' = Last("add_new_feed", "none", <<>>, NoTimerRec, NoTimerRec,
                                 IF rejection = "cancelled" THEN "none" ELSE rejection)
                /\ UNCHANGED <<disk, podcasts, podcast_listbox>>
           ELSE LET added == SetItem(podcasts, title, [url |-> url, episodes |-> <<>>])
                IN  /\ podcasts' = truncate_episodes(added)
                    /\ disk' = save_subscriptions(disk, added, SaveOutcome)
                    /\ podcast_listbox' = populate_podcast_list(truncate_episodes(added))
                    /\ last' = Last("add_new_feed", SaveOutcome, <<>>, NoTimerRec,
                                     NoTimerRec, "none")
    /\ UNCHANGED <<stack, pc, storage, episodes_tree, current_podcast, current_episode_index,
                   read_timer, timers, updated_feeds>>

\* delete_feed on the right-clicked row, with the answer given to the dialog
delete_feed(row, answer) ==
    /\ pc = "run"
    /\ LET podcast_name == rstrip(podcast_listbox[row])
       IN  IF answer /\ podcast_name \in Keys(podcasts)
           THEN LET left == DelItem(podcasts, podcast_name)
                IN  /\ podcasts' = truncate_episodes(left)
                    /\ disk' = save_subscriptions(disk, left, SaveOutcome)
                    /\ podcast_listbox' = populate_podcast_list(truncate_episodes(left))
                    /\ last' = Last("delete_feed", SaveOutcome, <<>>, NoTimerRec, NoTimerRec, "none")
           ELSE /\ last' = Last("delete_feed", "none", <<>>, NoTimerRec, NoTimerRec, "none")
                /\ UNCHANGED <<disk, podcasts, podcast_listbox>>
    /\ UNCHANGED <<stack, pc, storage, episodes_tree, current_podcast, current_episode_index,
                   read_timer, timers, updated_feeds>>

(***************************************************************************)
(* Inputs                                                                  *)
(***************************************************************************)
SeqsUpTo(S, n) == UNION {[1..k -> S] : k \in 0..n}

NameA == <<"a">>
NameAStar == <<"a", "*">>

Episode(title, link, read) == [title |-> title, link |-> link, read |-> read]
Feed(name, url, episodes) == [name |-> name, url |-> url, episodes |-> episodes]
Fetched(entries) == [bozo |-> FALSE, entries |-> entries]
\* bozo set: the entries, if any, are not looked at
Bozo == [bozo |-> TRUE, entries |-> <<>>]

\* Store files the application may find at start: none, a damaged one, one it
\* may not read, one written after an add, and one whose subscription holds
\* more episodes than MAX_EPISODES (written under a larger maximum, or by hand).
AddedDisk == File("valid", <<Feed(NameA, "u1", <<>>)>>)

InitialDisks ==
    {File("absent", <<>>), File("corrupt", <<>>), File("unreadable", <<>>),
     AddedDisk,
     File("valid", <<Feed(NameA, "u1", [k \in 1..(MAX_EPISODES + 1) |->
                                           Episode("Old", <<"x", "y", "z">>[k], FALSE)])>>)}

\* what a fetch returns in the application model: up to MaxFresh entries, all
\* with the link "x"
SpecEntries == {[title |-> "New", link |-> "x"]}
SpecFetchResults == {Bozo} \cup {Fetched(e) : e \in SeqsUpTo(SpecEntries, MaxFresh)}

Outline(title, text, xmlUrl) == [title |-> title, text |-> text, xmlUrl |-> xmlUrl]
\* documents given to the import: one that does not parse, one naming "a",
\* one naming "a*" by its text with an incomplete second outline
SpecDocs ==
    {[parses |-> FALSE, outlines |-> <<>>],
     [parses |-> TRUE, outlines |-> <<Outline(NameA, AbsentName, "u2")>>],
     [parses |-> TRUE, outlines |-> <<Outline(AbsentName, NameAStar, "u1"),
                                     Outline(NameA, AbsentName, Absent)>>]}

AddTitles == {<<>>, NameA, NameAStar}
AddUrls == {"", "u1"}

(***************************************************************************)
(* The application                                                         *)
(***************************************************************************)
Init ==
    /\ pc = "boot"
    /\ storage \in StorageConditions
    /\ disk \in InitialDisks
    \* a run on failing storage starts from the store file of one added feed
    /\ storage # "ok" => disk = AddedDisk
    /\ podcasts = <<>>
    /\ podcast_listbox = <<>>
    /\ episodes_tree = 0
    /\ current_podcast = None
    /\ current_episode_index = NoIndex
    /\ read_timer = NoTimer
    /\ timers = {}
    /\ updated_feeds = <<>>
    /\ stack = <<>>
    /\ last = Last("init", "none", <<>>, NoTimerRec, NoTimerRec, "none")

PodcastSelect == \E row \in 1..Len(podcast_listbox) : on_podcast_select(row)
EpisodeSelect == \E index \in 0..(episodes_tree - 1) : on_episode_select(index)
TimerFires == \E t \in timers : mark_current_episode_as_read(t)
MarkRead == manual_mark_read
MarkUnread == manual_mark_unread
Refresh == \E fetched \in [1..Len(podcasts) -> SpecFetchResults] : update_feeds(fetched)
Import == \E doc \in SpecDocs : import_opml_file(doc)
Add == \E title \in AddTitles, url \in AddUrls : add_new_feed(title, url)
Delete == \E row \in 1..Len(podcast_listbox), answer \in BOOLEAN : delete_feed(row, answer)

Next ==
    \/ Main
    \/ PodcastSelect
    \/ EpisodeSelect
    \/ TimerFires
    \/ MarkRead
    \/ MarkUnread
    \/ Refresh
    \/ Import
    \/ Add
    \/ Delete

Spec == Init /\ [][Next]_vars

(***************************************************************************)
(* The reader: one subscription, read from the store file, that the user   *)
(* browses, marks and refreshes; the fetches also return entries without   *)
(* a link.                                                                 *)
(***************************************************************************)
ReaderEntries == {[title |-> "New", link |-> Absent], [title |-> "New", link |-> "x"]}
ReaderFetchResults == {Bozo} \cup {Fetched(e) : e \in SeqsUpTo(ReaderEntries, MaxFresh)}

InitReader ==
    /\ Init
    /\ storage = "ok"

RefreshReader ==
    \E fetched \in [1..Len(podcasts) -> ReaderFetchResults] : update_feeds(fetched)

NextReader ==
    \/ Main
    \/ PodcastSelect
    \/ EpisodeSelect
    \/ TimerFires
    \/ MarkRead
    \/ MarkUnread
    \/ RefreshReader

SpecReader == InitReader /\ [][NextReader]_vars

(***************************************************************************)
(* update_all_feeds alone, on the collections and fetch results below      *)
(***************************************************************************)
\* Episode lists a collection may hold when update_all_feeds is called: any
\* list of up to MaxStored episodes, read or unread, without a link or with
\* the link "x" or "y" (a store file may hold any of them).
MergeStored ==
    SeqsUpTo({Episode("Old", l, r) : l \in {"", "x", "y"}, r \in BOOLEAN}, MaxStored)

\* Fetched entries: an entry without any key, and entries with the link "y"
\* (which the collection may know) or "z" (which it does not).
MergeEntries ==
    {[title |-> Absent, link |-> Absent],
     [title |-> "New", link |-> "y"],
     [title |-> "New", link |-> "z"]}
MergeFetchResults == {Bozo} \cup {Fetched(e) : e \in SeqsUpTo(MergeEntries, MaxFresh)}

\* a second subscription, before or after the first, with few cases of its own
SiblingStored == {<<>>, <<Episode("Old", "y", TRUE)>>}
SiblingFetchResults == {Bozo, Fetched(<<>>), Fetched(<<[title |-> "New", link |-> "y"]>>)}

MergeCollections ==
    LET firsts == {Feed(NameA, "u1", e) : e \in MergeStored}
        siblings == {Feed(NameAStar, "u2", e) : e \in SiblingStored}
    IN  {<<f>> : f \in firsts}
        \cup {<<f, g>> : f \in firsts, g \in siblings}
        \cup {<<g, f>> : f \in firsts, g \in siblings}

FetchesFor(feeds) ==
    {fetched \in [1..Len(feeds) -> MergeFetchResults \cup SiblingFetchResults] :
        \A i \in 1..Len(feeds) :
            fetched[i] \in IF feeds[i].name = NameA THEN MergeFetchResults
                           ELSE SiblingFetchResults}

InitMerge ==
    /\ pc = "merge"
    /\ storage = "ok"
    /\ disk = File("absent", <<>>)
    /\ podcasts \in MergeCollections
    /\ podcast_listbox = <<>>
    /\ episodes_tree = 0
    /\ current_podcast = None
    /\ current_episode_index = NoIndex
    /\ read_timer = NoTimer
    /\ timers = {}
    /\ updated_feeds = <<>>
    /\ stack = <<>>
    /\ last = Last("init", "none", <<>>, NoTimerRec, NoTimerRec, "none")

\* updated_feeds = update_all_feeds(podcasts), the fetches returning `fetched`
MergeApply ==
    /\ pc = "merge"
    /\ \E fetched \in FetchesFor(podcasts) :
          /\ updated_feeds' = update_all_feeds(podcasts, fetched)
          /\ last' = Last("update_all_feeds", "none", fetched, NoTimerRec, NoTimerRec, "none")
    /\ pc' = "merged"
    /\ UNCHANGED <<stack, storage, disk, podcasts, podcast_listbox, episodes_tree, current_podcast,
                   current_episode_index, read_timer, timers>>

NextMerge == MergeApply

SpecMerge == InitMerge /\ [][NextMerge]_vars

(***************************************************************************)
(* truncate_episodes on its own: one call on a collection, any list of it  *)
(* up to MaxExcess longer than MAX_EPISODES                                *)
(***************************************************************************)
MaxExcess == 2

TruncateStored ==
    SeqsUpTo({Episode("Old", l, r) : l \in {"x", "y"}, r \in BOOLEAN},
             MAX_EPISODES + MaxExcess)
TruncateSiblingStored ==
    {<<>>, [k \in 1..(MAX_EPISODES + 1) |-> Episode("Old", <<"x", "y", "z">>[k], FALSE)]}

TruncateCollections ==
    LET firsts == {Feed(NameA, "u1", e) : e \in TruncateStored}
        siblings == {Feed(NameAStar, "u2", e) : e \in TruncateSiblingStored}
    IN  {<<f>> : f \in firsts}
        \cup {<<f, g>> : f \in firsts, g \in siblings}
        \cup {<<g, f>> : f \in firsts, g \in siblings}

InitTruncate ==
    /\ pc = "truncate"
    /\ storage = "ok"
    /\ disk = File("absent", <<>>)
    /\ podcasts \in TruncateCollections
    /\ podcast_listbox = <<>>
    /\ episodes_tree = 0
    /\ current_podcast = None
    /\ current_episode_index = NoIndex
    /\ read_timer = NoTimer
    /\ timers = {}
    /\ updated_feeds = <<>>
    /\ stack = <<>>
    /\ last = Last("init", "none", <<>>, NoTimerRec, NoTimerRec, "none")

\* updated_feeds = truncate_episodes(podcasts): the collection is cut in place
\* and returned; last.args keeps what it was before the call
TruncateApply ==
    /\ pc = "truncate"
    /\ podcasts' = truncate_episodes(podcasts)
    /\ updated_feeds' = truncate_episodes(podcasts)
    /\ last' = Asked(<<podcasts>>,
                     Last("truncate_episodes", "none", <<>>, NoTimerRec, NoTimerRec, "none"))
    /\ pc' = "truncated"
    /\ UNCHANGED <<stack, storage, disk, podcast_listbox, episodes_tree, current_podcast,
                   current_episode_index, read_timer, timers>>

NextTruncate == TruncateApply

SpecTruncate == InitTruncate /\ [][NextTruncate]_vars

(***************************************************************************)
(* The Tk event loop: which handler is inside save_subscriptions or        *)
(* update_all_feeds, and which are suspended in a modal dialog.  Tk runs   *)
(* callbacks on one thread, from mainloop() or from the event loop a modal *)
(* dialog runs until it is answered; the program starts no thread.         *)
(* stack holds the handlers that have been entered and have not returned,  *)
(* innermost last.                                                         *)
(***************************************************************************)
\* handlers nested in one another's dialogs
MaxDepth == 2

\* The ways through each handler that calls a dialog, save_subscriptions or
\* update_all_feeds, as the calls it makes in order.
Flows(handler) ==
    CASE handler = "update_feeds" -> {<<"merge", "save", "dialog">>}
      [] handler = "import_opml_file" ->
            {<<"dialog">>, <<"dialog", "save", "dialog">>, <<"dialog", "dialog">>}
      [] handler = "add_new_feed" ->
            {<<"dialog">>, <<"dialog", "dialog">>, <<"dialog", "dialog", "dialog">>,
             <<"dialog", "dialog", "save", "dialog">>}
      [] handler = "delete_feed" -> {<<"dialog">>, <<"dialog", "save">>}
      [] handler = "manual_mark_read" -> {<<"dialog">>, <<"save">>}
      [] handler = "manual_mark_unread" -> {<<"dialog">>, <<"save">>}
      [] handler = "mark_current_episode_as_read" -> {<<"save">>}
      [] handler = "download_episode" -> {<<"dialog">>, <<"dialog", "dialog">>}
      [] handler = "play_episode" -> {<<"dialog">>}

Handlers ==
    {"update_feeds", "import_opml_file", "add_new_feed", "delete_feed", "manual_mark_read",
     "manual_mark_unread", "mark_current_episode_as_read", "download_episode", "play_episode"}

\* the call the frame is in
Call(frame) == frame.flow[frame.at]

\* a fetch loop that keeps the window alive by running pending callbacks
Yields_during_fetch(call) == call \in {"dialog", "merge"}

\* the calls that run an event loop until they return: the modal dialogs.
\* save_subscriptions and update_all_feeds (feedparser.parse, open,
\* json.dump) return without running one.
Yields(call) == call = "dialog"

InitLoop ==
    /\ pc = "loop"
    /\ storage = "ok"
    /\ disk = File("absent", <<>>)
    /\ podcasts = <<>>
    /\ podcast_listbox = <<>>
    /\ episodes_tree = 0
    /\ current_podcast = None
    /\ current_episode_index = NoIndex
    /\ read_timer = NoTimer
    /\ timers = {}
    /\ updated_feeds = <<>>
    /\ last = Last("init", "none", <<>>, NoTimerRec, NoTimerRec, "none")
    /\ stack = <<>>

\* An event loop calls a handler: mainloop() when no handler is running, or
\* the loop of the dialog the innermost handler waits in.  Any handler may be
\* called there: the timer callback, and the others where the dialog's grab
\* does not keep the user from the main window.
Dispatch ==
    /\ pc = "loop"
    /\ Len(stack) < MaxDepth
    /\ IF stack = <<>> THEN TRUE ELSE Yields(Call(stack[Len(stack)]))
    /\ \E handler \in Handlers : \E flow \in Flows(handler) :
          stack' = Append(stack, [handler |-> handler, flow |-> flow, at |-> 1])
    /\ UNCHANGED <<pc, storage, disk, podcasts, podcast_listbox, episodes_tree,
                   current_podcast, current_episode_index, read_timer, timers,
                   updated_feeds, last>>

\* the innermost handler's call returns: it goes on to its next call, or
\* returns to the event loop that called it
Proceed ==
    /\ pc = "loop"
    /\ stack # <<>>
    /\ LET frame == stack[Len(stack)]
       IN  stack' = IF frame.at < Len(frame.flow)
                    THEN [stack EXCEPT ![Len(stack)].at = frame.at + 1]
                    ELSE SubSeq(stack, 1, Len(stack) - 1)
    /\ UNCHANGED <<pc, storage, disk, podcasts, podcast_listbox, episodes_tree,
                   current_podcast, current_episode_index, read_timer, timers,
                   updated_feeds, last>>

NextLoop == Dispatch \/ Proceed

SpecLoop == InitLoop /\ [][NextLoop]_vars

(***************************************************************************)
(* import_opml on its own: one call on a document of up to MaxOutlines     *)
(* outlines, each attribute absent, empty or given                         *)
(***************************************************************************)
MaxOutlines == 2

ImportOutlines ==
    {Outline(title, text, xmlUrl) : title \in {AbsentName, <<>>, NameA},
                                    text \in {AbsentName, NameA, NameAStar},
                                    xmlUrl \in {Absent, "", "u1", "u2"}}
ImportDocs ==
    {[parses |-> FALSE, outlines |-> <<>>]}
    \cup {[parses |-> TRUE, outlines |-> o] : o \in SeqsUpTo(ImportOutlines, MaxOutlines)}

InitImport ==
    /\ pc = "import"
    /\ storage = "ok"
    /\ disk = File("absent", <<>>)
    /\ podcasts = <<>>
    /\ podcast_listbox = <<>>
    /\ episodes_tree = 0
    /\ current_podcast = None
    /\ current_episode_index = NoIndex
    /\ read_timer = NoTimer
    /\ timers = {}
    /\ updated_feeds = <<>>
    /\ last \in {Asked(<<doc>>, Last("init", "none", <<>>, NoTimerRec, NoTimerRec, "none")) :
                    doc \in ImportDocs}
    /\ stack = <<>>

\* updated_feeds = import_opml(filepath), the file holding the document
\* last.args names
ImportApply ==
    /\ pc = "import"
    /\ updated_feeds' = import_opml(last.args[1])
    /\ last' = [last EXCEPT !.op = "import_opml"]
    /\ pc' = "imported"
    /\ UNCHANGED <<stack, storage, disk, podcasts, podcast_listbox, episodes_tree,
                   current_podcast, current_episode_index, read_timer, timers>>

NextImport == ImportApply

SpecImport == InitImport /\ [][NextImport]_vars

(***************************************************************************)
(* Properties                                                              *)
(***************************************************************************)
Links(episodes) == {episodes[k].link : k \in 1..Len(episodes)}
EntryLinks(entries) == {Get(entries[k].link, "") : k \in 1..Len(entries)}

\* C1: a read episode with a non-empty link L stays read over a successful
\* refresh whose fetched entries contain L: every episode with link L in the
\* refreshed list is read (stated for one refresh; any number follows).
C1_ReadSurvivesRefresh ==
    [][last'.op = "update_feeds" =>
        \A i \in 1..Len(podcasts) : \A k \in 1..Len(podcasts[i].episodes) :
            LET L == podcasts[i].episodes[k].link
            IN  (/\ L # ""
                 /\ podcasts[i].episodes[k].read
                 /\ ~last'.fetched[i].bozo
                 /\ L \in EntryLinks(last'.fetched[i].entries))
                => \A j \in 1..Len(podcasts'[i].episodes) :
                       podcasts'[i].episodes[j].link = L => podcasts'[i].episodes[j].read]_vars

\* C2: after a refresh, the episode built from a fetched entry whose link is
\* absent or empty is unread, whatever the previous list held.
C2_EmptyLinkIsNew ==
    last.op = "update_feeds" =>
        \A i \in 1..Len(podcasts) :
            ~last.fetched[i].bozo =>
                \A k \in 1..Len(podcasts[i].episodes) :
                    Get(last.fetched[i].entries[k].link, "") = ""
                        => ~podcasts[i].episodes[k].read

\* C3: after a refresh, no two episodes of a successfully fetched subscription
\* share a link.
C3_NoTwoEpisodesShareLink ==
    last.op = "update_feeds" =>
        \A i \in 1..Len(podcasts) :
            ~last.fetched[i].bozo =>
                \A j, k \in 1..Len(podcasts[i].episodes) :
                    podcasts[i].episodes[j].link = podcasts[i].episodes[k].link => j = k

C5_FailedSaveKeepsFile ==
    [][last'.save \in {"open_failed", "write_failed"} => disk' = disk]_vars

\* C6: once the application runs, no subscription holds more than MAX_EPISODES
\* episodes in memory.
C6_BoundedHistory ==
    pc = "run" => \A i \in 1..Len(podcasts) : Len(podcasts[i].episodes) <= MAX_EPISODES

\* C7: the episode list update_all_feeds builds for a fetched subscription is
\* the fetched entries in their order, cut to the first MAX_EPISODES, each
\* with the entry's own fields; no link of the previous list that the fetch
\* lacks is in it.
C7_MergedListIsFreshList ==
    pc = "merged" =>
        \A i \in 1..Len(podcasts) :
            ~last.fetched[i].bozo =>
                LET eps == updated_feeds[i].episodes
                    entries == last.fetched[i].entries
                IN  /\ Len(eps) = Min(Len(entries), MAX_EPISODES)
                    /\ \A k \in 1..Len(eps) :
                          /\ eps[k].link = Get(entries[k].link, "")
                          /\ eps[k].title = Get(entries[k].title, "No Title")
                    /\ \A l \in Links(podcasts[i].episodes) :
                          l \notin EntryLinks(entries) => l \notin Links(eps)

\* the example of the claim: [x(read), y(unread)] and fresh [y, z] give
\* [y(unread), z(unread)]
C7_Witness ==
    /\ pc = "merged"
    /\ podcasts[1].episodes = <<Episode("Old", "x", TRUE), Episode("Old", "y", FALSE)>>
    /\ last.fetched[1] = Fetched(<<[title |-> "New", link |-> "y"],
                                  [title |-> "New", link |-> "z"]>>)
    /\ updated_feeds[1].episodes = <<Episode("New", "y", FALSE), Episode("New", "z", FALSE)>>

\* C8: the read flag of an episode that a step keeps (same subscription, same
\* position, same link) changes to read only by manual_mark_read or the dwell
\* timer, and to unread only by manual_mark_unread.
C8_ReadStateMachine ==
    [][\A n \in Keys(podcasts) \cap Keys(podcasts') :
          LET before == EpisodesOf(podcasts, n)
              after == EpisodesOf(podcasts', n)
          IN  \A k \in 1..Min(Len(before), Len(after)) :
                  (before[k].link = after[k].link /\ before[k].read # after[k].read)
                  => IF after[k].read
                     THEN last'.op \in {"manual_mark_read", "mark_current_episode_as_read"}
                     ELSE last'.op = "manual_mark_unread"]_vars

\* what every pending dwell timer is: the one self.read_timer names, scheduled
\* for the current selection
OnePendingTimer ==
    /\ Cardinality(timers) <= 1
    /\ \A t \in timers :
          /\ t.id = read_timer
          /\ t.podcast = current_podcast
          /\ t.index = current_episode_index

\* the flags a firing timer changes: that of the episode it was scheduled for, to read
TimerMarksItsEpisode ==
    last'.op = "mark_current_episode_as_read" =>
        \A n \in Keys(podcasts) \cap Keys(podcasts') :
            LET before == EpisodesOf(podcasts, n)
                after == EpisodesOf(podcasts', n)
            IN  \A k \in 1..Min(Len(before), Len(after)) :
                    before[k].read # after[k].read
                    => /\ last'.fired \in timers
                       /\ n = last'.fired.podcast
                       /\ k - 1 = last'.fired.index
                       /\ after[k].read

\* C9: at most one dwell timer is pending, it is the one of the most recent
\* episode selection (selecting another episode cancels the pending one), and
\* when it fires it marks only that episode.
C9_DwellTimerCancellation ==
    []OnePendingTimer /\ [][TimerMarksItsEpisode]_vars

\* episode j was selected while the timer of another episode i was pending
C9_Witness ==
    /\ last.op = "on_episode_select"
    /\ last.cancelled # NoTimerRec
    /\ last.cancelled.index # current_episode_index
    /\ Cardinality(timers) = 1

\* C10: load_subscriptions does not raise; it returns the persisted collection
\* of a valid store file and the empty collection otherwise.
C10_LoadNeverRaises ==
    /\ pc # "crashed"
    /\ last.op = "main" =>
          /\ pc = "run"
          /\ podcasts = IF disk.state = "valid" THEN disk.feeds ELSE <<>>

\* the application started on a corrupt store file
C10_Witness ==
    /\ last.op = "main"
    /\ pc = "run"
    /\ disk.state = "corrupt"
    /\ podcasts = <<>>

\* the subscription stored under name
FeedOf(feeds, name) == feeds[IndexOf(feeds, name)]

\* C11: import overwrite.  After import_opml_file every subscription whose
\* name the imported mapping holds has the imported url and no episodes, and
\* every subscription whose name the mapping does not hold is as it was
\* before the import.
C11_ImportOverwrite ==
    [][last'.op = "import_opml_file" /\ import_opml(last'.args[1]) # <<>> =>
        LET opml_feeds == import_opml(last'.args[1])
        IN  /\ \A k \in 1..Len(opml_feeds) :
                   opml_feeds[k].name \in Keys(podcasts) =>
                       /\ FeedOf(podcasts', opml_feeds[k].name).url = opml_feeds[k].url
                       /\ FeedOf(podcasts', opml_feeds[k].name).episodes = <<>>
            /\ \A name \in Keys(podcasts) \ Keys(opml_feeds) :
                   /\ name \in Keys(podcasts')
                   /\ FeedOf(podcasts', name) = FeedOf(podcasts, name)]_vars

\* C12: a rejected manual add mutates nothing.  When add_new_feed is given an
\* empty title, an empty url or a name the collection holds, it changes
\* neither the collection nor the store file, and for a name the collection
\* holds (title and url given) it shows the warning.
C12_RejectedAddMutatesNothing ==
    [][last'.op = "add_new_feed" =>
       \A title \in AddTitles, url \in AddUrls :
          add_new_feed(title, url) =>
              /\ title = <<>> \/ url = "" \/ title \in Keys(podcasts) =>
                     /\ podcasts' = podcasts
                     /\ disk' = disk
                     /\ last'.save = "none"
              /\ title # <<>> /\ url # "" /\ title \in Keys(podcasts) =>
                     last'.raised = "Duplicate Feed"]_vars

\* a duplicate name was rejected for a subscription that holds episodes
C12_Witness ==
    /\ last.op = "add_new_feed"
    /\ last.raised = "Duplicate Feed"
    /\ Len(podcasts) = 1
    /\ podcasts[1].episodes # <<>>

\* C13: truncation is a prefix operation and idempotent.  truncate_episodes
\* leaves a subscription of at most MAX_EPISODES episodes as it was, replaces a
\* longer list by its first MAX_EPISODES episodes in their order, and applied
\* to its own result changes nothing.
C13_TruncationIsPrefix ==
    pc = "truncated" =>
        LET before == last.args[1]
        IN  /\ Len(podcasts) = Len(before)
            /\ \A i \in 1..Len(before) :
                   /\ podcasts[i].name = before[i].name
                   /\ podcasts[i].url = before[i].url
                   /\ Len(before[i].episodes) <= MAX_EPISODES => podcasts[i] = before[i]
                   /\ Len(before[i].episodes) > MAX_EPISODES =>
                          podcasts[i].episodes =
                              [k \in 1..MAX_EPISODES |-> before[i].episodes[k]]
            /\ updated_feeds = podcasts
            /\ truncate_episodes(podcasts) = podcasts

\* a call on a collection of a short list and a longer one whose first and
\* last MAX_EPISODES episodes differ
C13_Witness ==
    /\ pc = "truncated"
    /\ \E i, j \in 1..Len(podcasts) :
          /\ last.args[1][i].episodes # <<>>
          /\ Len(last.args[1][i].episodes) <= MAX_EPISODES
          /\ Len(last.args[1][j].episodes) > MAX_EPISODES
          /\ podcasts[j].episodes #
                 SubSeq(last.args[1][j].episodes,
                        Len(last.args[1][j].episodes) - MAX_EPISODES + 1,
                        Len(last.args[1][j].episodes))

\* the handlers that are inside save_subscriptions or update_all_feeds
Writing == {k \in 1..Len(stack) : Call(stack[k]) \in {"save", "merge"}}

\* C14: saves and merges are serialized.  In every state, handlers suspended
\* in a dialog included, at most one handler is inside save_subscriptions or
\* update_all_feeds.
C14_SavesAreSerialized == Cardinality(Writing) <= 1

\* the timer callback saves while another handler waits in a dialog that
\* follows its own save
C14_Witness ==
    /\ Len(stack) = 2
    /\ stack[1].handler = "update_feeds"
    /\ Call(stack[1]) = "dialog"
    /\ stack[2].handler = "mark_current_episode_as_read"
    /\ Call(stack[2]) = "save"

\* C15: every operation that changes the collection saves it.  Whenever no
\* handler is running and no save has failed, the store file holds the
\* collection in memory; a file that could not be loaded goes with the empty
\* collection until the first save.
C15_StoreEqualsCollection ==
    pc = "run" /\ storage = "ok" =>
        IF disk.state = "valid" THEN disk.feeds = podcasts ELSE podcasts = <<>>

\* the dwell timer marked an episode and the save wrote it
C15_Witness ==
    /\ pc = "run"
    /\ storage = "ok"
    /\ last.op = "mark_current_episode_as_read"
    /\ last.save = "ok"
    /\ last.fired.podcast \in Keys(podcasts)
    /\ EpisodesOf(podcasts, last.fired.podcast)[last.fired.index + 1].read
    /\ disk = File("valid", podcasts)

\* C16: import_opml returns exactly the names of the outlines that have a
\* non-empty title (or, failing that, text) and a non-empty feed address, each
\* once, with the url of the last such outline of that name and no episodes;
\* outlines missing either are skipped and the others still imported.
C16_ImportKeepsCompleteOutlines ==
    pc = "imported" /\ last.args[1].parses =>
        LET outlines == last.args[1].outlines
            named(o) == IF o.title \notin {AbsentName, <<>>} THEN o.title ELSE o.text
            complete(o) == /\ named(o) \notin {AbsentName, <<>>}
                           /\ o.xmlUrl \notin {Absent, ""}
            kept == {k \in 1..Len(outlines) : complete(outlines[k])}
            final(name) == CHOOSE k \in kept :
                               /\ named(outlines[k]) = name
                               /\ \A j \in kept : named(outlines[j]) = name => j <= k
        IN  /\ Keys(updated_feeds) = {named(outlines[k]) : k \in kept}
            /\ Len(updated_feeds) = Cardinality(Keys(updated_feeds))
            /\ \A i \in 1..Len(updated_feeds) :
                   /\ updated_feeds[i].url = outlines[final(updated_feeds[i].name)].xmlUrl
                   /\ updated_feeds[i].episodes = <<>>

\* a name given twice with different addresses, the first time by its text
C16_Witness ==
    /\ pc = "imported"
    /\ last.args[1].parses
    /\ Len(last.args[1].outlines) = 2
    /\ last.args[1].outlines[1] = Outline(<<>>, NameA, "u1")
    /\ last.args[1].outlines[2] = Outline(NameA, AbsentName, "u2")
    /\ updated_feeds = <<Feed(NameA, "u2", <<>>)>>

\* C18: refresh frame.  update_all_feeds returns a collection with exactly
\* the names of its argument, each once, and every subscription has the url
\* it had before, whether its fetch failed or succeeded.
C18_RefreshKeepsNamesAndUrls ==
    pc = "merged" =>
        /\ Keys(updated_feeds) = Keys(podcasts)
        /\ Cardinality(Keys(updated_feeds)) = Len(updated_feeds)
        /\ \A name \in Keys(podcasts) :
              FeedOf(updated_feeds, name).url = FeedOf(podcasts, name).url

\* of two subscriptions the first is fetched and gets other episodes, the
\* second fails
C18_Witness ==
    /\ pc = "merged"
    /\ Len(podcasts) = 2
    /\ ~last.fetched[1].bozo
    /\ updated_feeds[1].episodes # podcasts[1].episodes
    /\ updated_feeds[1].episodes # <<>>
    /\ last.fetched[2].bozo

\* C19: selection validity.  Whenever current_podcast and
\* current_episode_index are both set, current_podcast is a name of the
\* collection and current_episode_index an index into its episode list, and
\* neither manual_mark_read nor manual_mark_unread ends in an exception.
C19_SelectionIsValid ==
    /\ pc = "run" /\ current_podcast # None /\ current_episode_index # NoIndex =>
           /\ current_podcast \in Keys(podcasts)
           /\ current_episode_index < Len(EpisodesOf(podcasts, current_podcast))
    /\ last.op \in {"manual_mark_read", "manual_mark_unread"} => last.raised = "none"

\* C20: name resolution round trip.  Every row of the podcast list, with or
\* without the unread marker, resolves by rstrip(" *") to the name of the
\* subscription it displays: the row-th name in sorted order.
C20_RowResolvesToItsName ==
    pc = "run" =>
        /\ Len(podcast_listbox) = Cardinality(Keys(podcasts))
        /\ \A row \in 1..Len(podcast_listbox) :
              rstrip(podcast_listbox[row]) = Sorted(Keys(podcasts))[row]

\* C21: dwell-timer target.  A pending dwell timer that fires, whatever ran
\* between its scheduling and its firing, ends without an exception and
\* either leaves every episode as it was or sets the read flag of the episode
\* it was scheduled for (its subscription, its index) and of no other.
C21_TimerMarksItsTargetOrNothing ==
    [][last'.op = "mark_current_episode_as_read" =>
        LET t == last'.fired
        IN  /\ t \in timers
            /\ last'.raised = "none"
            /\ \/ podcasts' = podcasts
               \/ /\ t.podcast \in Keys(podcasts)
                  /\ t.index < Len(EpisodesOf(podcasts, t.podcast))
                  /\ podcasts' = truncate_episodes(
                                     SetRead(podcasts, t.podcast, t.index, TRUE))]_vars
====
